---- MODULE Spec2Model ----
(***************************************************************************)
(* Model of src/metaagent.py: the three entry points on_create,            *)
(* on_receive and on_destroy of the causal-analysis task handler.          *)
(*                                                                         *)
(* on_receive is modelled statement group by statement group (pc), so that *)
(* the order of validation, library calls and serialization is visible.    *)
(* The external libraries (pandas, networkx, dowhy), print and json.dumps  *)
(* of library values are the environment: each of their calls either       *)
(* returns or raises an Exception, chosen nondeterministically.            *)
(***************************************************************************)
EXTENDS Naturals, Sequences, FiniteSets, TLC

\* Bounds of the model.
MaxLen == 2      \* longest treatment / outcome list
MaxPairs == 4    \* most (treatment, outcome) pairs of one task
MaxCalls == 3    \* calls of one run under SpecLifecycle

(***************************************************************************)
(* Python values.  Every value is a record with a kind.                    *)
(***************************************************************************)
PyNone == [kind |-> "None"]
PyInt == [kind |-> "int"]
PyStr(t) == [kind |-> "str", text |-> t]
PyList(s) == [kind |-> "list", items |-> s]
PySet(s) == [kind |-> "set", items |-> s]
PyDataFrame == [kind |-> "DataFrame"]
PyJsonObject == [kind |-> "dict"]
\* A key that the dictionary does not hold.
Absent == [kind |-> "absent"]
\* A local that has not been assigned.
Unset == [kind |-> "unset"]

Keys == {"dataset", "graph_edges", "method", "treatment", "outcome"}
PyDict(f) == [kind |-> "dict", items |-> f]

\* dict.get(key, None)                                   (lines 33-37)
Get(d, k) == IF d.items[k] = Absent THEN PyNone ELSE d.items[k]

TypeName(v) ==
  CASE v.kind = "None" -> "NoneType"
    [] v.kind = "int" -> "int"
    [] OTHER -> v.kind

\* Exceptions: all are subclasses of Exception.
Exc(type, msg) == [type |-> type, msg |-> msg]

(***************************************************************************)
(* The strings the model's inputs are drawn from, and what json.loads,     *)
(* pathlib.Path.exists and networkx.DiGraph make of them.                  *)
(***************************************************************************)
EdgesText == "[[\"T1\", \"Y1\"], [\"T2\", \"Y1\"]]"
JsonValue ==
  ("null" :> PyNone) @@ ("{\"T1\": [0, 1]}" :> PyJsonObject) @@ ("5" :> PyInt)
  @@ (EdgesText :> PyList(<<"T1->Y1", "T2->Y1">>))
FileSystem == {"data.csv"}

\* json.loads(s)                                         (lines 41, 53)
JsonLoads(s) ==
  IF s.kind # "str"
  THEN [ok |-> FALSE,
        exc |-> Exc("TypeError", <<"the JSON object must be str, bytes or bytearray, not ", TypeName(s)>>)]
  ELSE IF s.text \in DOMAIN JsonValue
  THEN [ok |-> TRUE, value |-> JsonValue[s.text]]
  ELSE [ok |-> FALSE, exc |-> Exc("JSONDecodeError", <<"Expecting value: line 1 column 1 (char 0)">>)]

\* pathlib.Path(s)                                       (line 43)
PathNew(s) ==
  IF s.kind = "str"
  THEN [ok |-> TRUE, path |-> s.text]
  ELSE [ok |-> FALSE,
        exc |-> Exc("TypeError", <<"expected str, bytes or os.PathLike object, not ", TypeName(s)>>)]

\* Path.exists()                                         (line 44)
PathExists(p) == p \in FileSystem

\* nx.DiGraph(edges)                                     (line 58)
DiGraph(v) ==
  IF v.kind \in {"list", "None"}
  THEN [ok |-> TRUE]
  ELSE [ok |-> FALSE, exc |-> Exc("NetworkXError", <<"Input is not a known data type for conversion.">>)]

\* Whether `for x in v` can iterate v                    (lines 64, 65)
Iterable(v) == v.kind \in {"list", "set"}
NotIterable(v) == Exc("TypeError", <<"'", TypeName(v), "' object is not iterable">>)

\* Whether json.dumps accepts the container v            (line 110)
JsonSerializable(v) == v.kind \in {"list", "None", "int", "str"}

(***************************************************************************)
(* Return values.  A Python dict with one key is a TLA+ record with one    *)
(* field; a string is the sequence of the pieces it is formatted from.     *)
(***************************************************************************)
NoRet == [pending |-> TRUE]

\* Mutant of ErrorStatus: the message alone, without the "Error " prefix.
ErrorStatusWithoutPrefix(e) == [status |-> e.msg]

\* {"status": f"Error {e}"}                              (line 112)
ErrorStatus(e) == [status |-> <<"Error ">> \o e.msg]

\* Mutant of on_create: the except branch is taken for an argument that is
\* no dictionary.
on_create_rejecting(d) ==
  IF d.kind = "dict"
  THEN [status |-> <<"initialized">>]
  ELSE [status |-> <<"Error ", "'", TypeName(d), "' object has no attribute 'get'">>]

\* on_create's return value                              (lines 15-18)
on_create(d) == [status |-> <<"initialized">>]

\* on_destroy's return value                             (line 122)
on_destroy == [status |-> <<"destroyed">>]

\* The entry appended after a successful estimation      (lines 87-93)
EstimateEntry(treatment, outcome, method) ==
  [treatment |-> treatment, outcome |-> outcome, estimate |-> "causal_estimate.value",
   method |-> method, interpretation |-> "str(causal_estimate)"]

\* The entry appended by the per-pair handler            (lines 96-100)
ErrorEntry(treatment, outcome, e) ==
  [treatment |-> treatment, outcome |-> outcome, error |-> e.msg]

\* The result dictionary                                 (lines 103-108)
Result(effects, edges, treatments, outcomes) ==
  [causal_effects |-> effects, graph_edges |-> edges,
   treatments |-> treatments, outcomes |-> outcomes]

HasEstimate(effects) == \E k \in 1..Len(effects) : "estimate" \in DOMAIN effects[k]

NotSerializable(type) ==
  Exc("TypeError", <<"Object of type ", type, " is not JSON serializable">>)

\* json.dumps(result), key by key: raises TypeError when the library's
\* estimate values are not JSON serializable (valuesOk tells), or when the
\* treatment or outcome container is not.               (line 110)
JsonDumps(result, valuesOk) ==
  IF HasEstimate(result.causal_effects) /\ ~valuesOk
  THEN [ok |-> FALSE, exc |-> NotSerializable("ndarray")]
  ELSE IF ~JsonSerializable(result.treatments)
  THEN [ok |-> FALSE, exc |-> NotSerializable(TypeName(result.treatments))]
  ELSE IF ~JsonSerializable(result.outcomes)
  THEN [ok |-> FALSE, exc |-> NotSerializable(TypeName(result.outcomes))]
  ELSE [ok |-> TRUE, text |-> [kind |-> "json", of |-> result]]

(***************************************************************************)
(* Inputs.                                                                 *)
(***************************************************************************)
SeqsUpTo(S, n) == UNION {[1..k -> S] : k \in 0..n}
NoDuplicates(s) == \A a, b \in 1..Len(s) : a # b => s[a] # s[b]

Treatments == {"T1", "T2"}
Outcomes == {"Y1", "Y2"}

ListValues(S) ==
  {Absent, PyNone, PyInt}
  \cup {PyList(s) : s \in SeqsUpTo(S, MaxLen)}
  \cup {PySet(s) : s \in {q \in SeqsUpTo(S, MaxLen) : NoDuplicates(q)}}

DatasetValues ==
  {Absent, PyNone, PyInt, PyStr("null"), PyStr("{\"T1\": [0, 1]}"),
   PyStr("data.csv"), PyStr("missing.csv")}
GraphValues ==
  {Absent, PyNone, PyInt, PyStr(EdgesText), PyStr("null"), PyStr("5"), PyStr("T1 -> Y1")}
MethodValues == {Absent, PyStr("backdoor.linear_regression")}

NumItems(v) == IF Iterable(v) THEN Len(v.items) ELSE 0

TaskDicts ==
  {PyDict([dataset |-> a, graph_edges |-> g, method |-> m, treatment |-> t, outcome |-> o]) :
     a \in DatasetValues, g \in GraphValues, m \in MethodValues,
     t \in ListValues(Treatments), o \in ListValues(Outcomes)}

ReceiveInputs == {PyNone} \cup {d \in TaskDicts :
  NumItems(d.items["treatment"]) * NumItems(d.items["outcome"]) <= MaxPairs}

CreateInputs ==
  {PyNone, PyDict([k \in Keys |-> Absent]),
   PyDict([dataset |-> PyStr("data.csv"), graph_edges |-> Absent, method |-> Absent,
           treatment |-> Absent, outcome |-> Absent])}

EnvAnswers == {"ok", "raise"}

(***************************************************************************)
(* State.                                                                  *)
(***************************************************************************)
VARIABLES
  pc,                    \* "idle", the statement group on_receive is at, or "returned"
  data,                  \* the argument of the current (or last) call
  analysis_data,         \* locals of on_receive
  analysis_graph_edges,
  ti,                    \* position of the outer loop in analysis_treatments
  oi,                    \* position of the inner loop in analysis_outcomes
  effect_data,
  ret,                   \* the value the last call returned
  lastCall,              \* the function called last
  failed,                \* where the exception of the last on_receive was raised
  attempts,              \* the pairs a CausalModel was constructed for, in order, and how the library answered
  envlog,                \* the environment's answers during the last on_receive
  history,               \* SpecLifecycle: the calls made so far
  first                  \* SpecLifecycle: the first on_receive call that returned

locals == <<analysis_data, analysis_graph_edges, ti, oi, effect_data>>
ghost == <<history, first>>
vars == <<pc, data, analysis_data, analysis_graph_edges, ti, oi, effect_data, ret,
          lastCall, failed, attempts, envlog, history, first>>

NoFirst == [none |-> TRUE]

Init ==
  /\ pc = "idle"
  /\ data = Unset
  /\ analysis_data = Unset
  /\ analysis_graph_edges = Unset
  /\ ti = 0
  /\ oi = 0
  /\ effect_data = <<>>
  /\ ret = NoRet
  /\ lastCall = "none"
  /\ failed = "none"
  /\ attempts = <<>>
  /\ envlog = {}
  /\ history = <<>>
  /\ first = NoFirst

\* The frame of on_receive is gone once it has returned.
DropLocals ==
  /\ analysis_data' = Unset
  /\ analysis_graph_edges' = Unset
  /\ ti' = 0
  /\ oi' = 0
  /\ effect_data' = <<>>

\* An exception reaches the handler of lines 111-112.
Fail(stage, e) ==
  /\ pc' = "returned"
  /\ ret' = ErrorStatus(e)
  /\ failed' = stage
  /\ DropLocals

Asked(question, answer) == envlog' = envlog \cup {<<question, answer>>}

(***************************************************************************)
(* on_create and on_destroy                              (lines 8-18, 115-122) *)
(***************************************************************************)
OnCreate(d) ==
  /\ pc = "idle"
  /\ data' = d
  /\ ret' = on_create(d)
  /\ lastCall' = "on_create"
  /\ failed' = "none"
  /\ attempts' = <<>>
  /\ envlog' = {}
  /\ pc' = "returned"
  /\ UNCHANGED locals

OnDestroy ==
  /\ pc = "idle"
  /\ data' = Unset
  /\ ret' = on_destroy
  /\ lastCall' = "on_destroy"
  /\ failed' = "none"
  /\ attempts' = <<>>
  /\ envlog' = {}
  /\ pc' = "returned"
  /\ UNCHANGED locals

(***************************************************************************)
(* on_receive                                            (lines 21-112)    *)
(***************************************************************************)
\* Mutant of ExtractArguments: a module-level flag, cleared by on_destroy,
\* is consulted before the task is read.
ExtractArgumentsIfNotDestroyed(d) ==
  IF lastCall = "on_destroy"
  THEN Fail("extract", Exc("RuntimeError", <<"not initialized">>))
  ELSE IF d.kind = "dict"
  THEN /\ pc' = "load_dataset"
       /\ ret' = NoRet
       /\ failed' = "none"
       /\ UNCHANGED locals
  ELSE Fail("extract", Exc("AttributeError", <<"'", TypeName(d), "' object has no attribute 'get'">>))

\* The call and the extraction of the arguments          (lines 31-37)
ExtractArguments(d) ==
  IF d.kind = "dict"
  THEN /\ pc' = "load_dataset"
       /\ ret' = NoRet
       /\ failed' = "none"
       /\ UNCHANGED locals
  ELSE Fail("extract", Exc("AttributeError", <<"'", TypeName(d), "' object has no attribute 'get'">>))

ReceiveCall(d) ==
  /\ pc = "idle"
  /\ data' = d
  /\ lastCall' = "on_receive"
  /\ attempts' = <<>>
  /\ envlog' = {}
  /\ ExtractArguments(d)

\* Mutant of LoadDataset: the dataset string is passed on as it is, to be
\* loaded when the first model is built.
LoadDatasetLazily(read_csv) ==
  /\ pc = "load_dataset"
  /\ analysis_data' = Get(data, "dataset")
  /\ pc' = "parse_graph"
  /\ UNCHANGED <<analysis_graph_edges, ti, oi, effect_data, ret, failed, envlog>>
  /\ UNCHANGED <<data, lastCall, attempts>>

\* Load the dataset: JSON first, then a CSV file         (lines 39-49)
\* Line 42 catches both exceptions json.loads raises here.
LoadDataset(read_csv) ==
  /\ pc = "load_dataset"
  /\ LET analysis_data_string == Get(data, "dataset")
         loaded == JsonLoads(analysis_data_string)
         path == PathNew(analysis_data_string)
         Loaded(value) ==
           IF value = PyNone
           THEN Fail("dataset", Exc("ValueError", <<"No data provided for analysis.">>))
                /\ UNCHANGED envlog
           ELSE /\ analysis_data' = value
                /\ pc' = "parse_graph"
                /\ UNCHANGED <<analysis_graph_edges, ti, oi, effect_data, ret, failed, envlog>>
     IN IF loaded.ok
        THEN Loaded(loaded.value)
        ELSE IF ~path.ok
        THEN Fail("dataset", path.exc) /\ UNCHANGED envlog
        ELSE IF PathExists(path.path)
        THEN /\ Asked(<<"read_csv", path.path>>, read_csv)
             /\ IF read_csv = "ok"
                THEN /\ analysis_data' = PyDataFrame
                     /\ pc' = "parse_graph"
                     /\ UNCHANGED <<analysis_graph_edges, ti, oi, effect_data, ret, failed>>
                ELSE Fail("dataset", Exc("ParserError", <<"Error tokenizing data.">>))
        ELSE Fail("dataset", Exc("ValueError", <<"Invalid data path or data format.">>))
             /\ UNCHANGED envlog
  /\ UNCHANGED <<data, lastCall, attempts>>

\* Parse the graph edges and build the graph             (lines 51-61)
ParseGraph ==
  /\ pc = "parse_graph"
  /\ LET analysis_graph_edges_string == Get(data, "graph_edges")
         parsed == JsonLoads(analysis_graph_edges_string)
     IN IF analysis_graph_edges_string = PyNone
        THEN Fail("graph", Exc("ValueError", <<"No graph edges provided for analysis.">>))
        ELSE IF ~parsed.ok
        THEN Fail("graph", parsed.exc)
        ELSE IF ~DiGraph(parsed.value).ok
        THEN Fail("graph", DiGraph(parsed.value).exc)
        ELSE /\ analysis_graph_edges' = parsed.value
             /\ effect_data' = <<>>
             /\ pc' = "for_treatment"
             /\ UNCHANGED <<analysis_data, ti, oi, ret, failed>>
  /\ UNCHANGED <<data, lastCall, attempts, envlog>>

\* Mutant of ForTreatment: the inner loop is not started again for the
\* next treatment (the outcomes are consumed once, like an iterator).
ForTreatmentKeepingOutcomePosition ==
  /\ pc = "for_treatment"
  /\ LET analysis_treatments == Get(data, "treatment")
     IN IF ~Iterable(analysis_treatments)
        THEN Fail("iterate", NotIterable(analysis_treatments))
        ELSE IF ti < Len(analysis_treatments.items)
        THEN /\ ti' = ti + 1
             /\ pc' = "for_outcome"
             /\ UNCHANGED <<analysis_data, analysis_graph_edges, oi, effect_data, ret, failed>>
        ELSE /\ pc' = "compile"
             /\ UNCHANGED <<locals, ret, failed>>
  /\ UNCHANGED <<data, lastCall, attempts, envlog>>

\* for treatment in analysis_treatments                  (line 64)
ForTreatment ==
  /\ pc = "for_treatment"
  /\ LET analysis_treatments == Get(data, "treatment")
     IN IF ~Iterable(analysis_treatments)
        THEN Fail("iterate", NotIterable(analysis_treatments))
        ELSE IF ti < Len(analysis_treatments.items)
        THEN /\ ti' = ti + 1
             /\ oi' = 0
             /\ pc' = "for_outcome"
             /\ UNCHANGED <<analysis_data, analysis_graph_edges, effect_data, ret, failed>>
        ELSE /\ pc' = "compile"
             /\ UNCHANGED <<locals, ret, failed>>
  /\ UNCHANGED <<data, lastCall, attempts, envlog>>

\* for outcome in analysis_outcomes                      (line 65)
ForOutcome ==
  /\ pc = "for_outcome"
  /\ LET analysis_outcomes == Get(data, "outcome")
     IN IF ~Iterable(analysis_outcomes)
        THEN Fail("iterate", NotIterable(analysis_outcomes))
        ELSE IF oi < Len(analysis_outcomes.items)
        THEN /\ oi' = oi + 1
             /\ pc' = "estimate"
             /\ UNCHANGED <<analysis_data, analysis_graph_edges, ti, effect_data, ret, failed>>
        ELSE /\ pc' = "for_treatment"
             /\ UNCHANGED <<locals, ret, failed>>
  /\ UNCHANGED <<data, lastCall, attempts, envlog>>

\* Mutant of EstimatePair: a failing pair is not caught in the loop; its
\* exception reaches the handler of lines 111-112.
EstimatePairAbortingBatch(library, printed) ==
  /\ pc = "estimate"
  /\ LET treatment == Get(data, "treatment").items[ti]
         outcome == Get(data, "outcome").items[oi]
         analysis_method == Get(data, "method")
         e == Exc("Exception", <<"estimation failed">>)
     IN /\ attempts' = Append(attempts, [treatment |-> treatment, outcome |-> outcome, library |-> library])
        /\ Asked(<<"estimate", treatment, outcome>>, library)
        /\ IF library = "ok"
           THEN /\ effect_data' = Append(effect_data, EstimateEntry(treatment, outcome, analysis_method))
                /\ pc' = "for_outcome"
                /\ UNCHANGED <<analysis_data, analysis_graph_edges, ti, oi, ret, failed>>
           ELSE Fail("handler", e)
  /\ UNCHANGED <<data, lastCall>>

\* The body of the loop: model, identify, estimate, record  (lines 66-100)
\* library: whether CausalModel / identify_effect / estimate_effect return or
\* one of them raises; printed: whether the handler's print returns.
EstimatePair(library, printed) ==
  /\ pc = "estimate"
  /\ LET treatment == Get(data, "treatment").items[ti]
         outcome == Get(data, "outcome").items[oi]
         analysis_method == Get(data, "method")
         e == Exc("Exception", <<"estimation failed">>)
     IN /\ attempts' = Append(attempts, [treatment |-> treatment, outcome |-> outcome, library |-> library])
        /\ IF library = "ok"
           THEN /\ effect_data' = Append(effect_data, EstimateEntry(treatment, outcome, analysis_method))
                /\ pc' = "for_outcome"
                /\ Asked(<<"estimate", treatment, outcome>>, library)
                /\ UNCHANGED <<analysis_data, analysis_graph_edges, ti, oi, ret, failed>>
           ELSE IF printed = "ok"
           THEN /\ effect_data' = Append(effect_data, ErrorEntry(treatment, outcome, e))
                /\ pc' = "for_outcome"
                /\ envlog' = envlog \cup {<<<<"estimate", treatment, outcome>>, library>>,
                                          <<<<"print", treatment, outcome>>, printed>>}
                /\ UNCHANGED <<analysis_data, analysis_graph_edges, ti, oi, ret, failed>>
           ELSE /\ Fail("handler", Exc("OSError", <<"print failed">>))
                /\ envlog' = envlog \cup {<<<<"estimate", treatment, outcome>>, library>>,
                                          <<<<"print", treatment, outcome>>, printed>>}
  /\ UNCHANGED <<data, lastCall>>

\* Compile and serialize the result                      (lines 102-112)
CompileResult(valuesOk) ==
  /\ pc = "compile"
  /\ LET result == Result(effect_data, analysis_graph_edges,
                          Get(data, "treatment"), Get(data, "outcome"))
         dumped == JsonDumps(result, valuesOk = "ok")
     IN /\ IF dumped.ok
           THEN /\ ret' = [result |-> dumped.text]
                /\ pc' = "returned"
                /\ failed' = "none"
                /\ DropLocals
           ELSE Fail("serialize", dumped.exc)
        /\ IF HasEstimate(effect_data)
           THEN Asked(<<"dumps">>, valuesOk)
           ELSE UNCHANGED envlog
  /\ UNCHANGED <<data, lastCall, attempts>>

\* The caller takes the returned value; nothing of the call is left.
Collect ==
  /\ pc = "returned"
  /\ pc' = "idle"
  /\ data' = Unset
  /\ ret' = NoRet
  /\ failed' = "none"
  /\ attempts' = <<>>
  /\ envlog' = {}
  /\ UNCHANGED <<locals, lastCall>>

(***************************************************************************)
(* Spec: the three functions called in any order, one call at a time.      *)
(***************************************************************************)
Next ==
  \/ pc = "idle" /\ \E d \in CreateInputs : OnCreate(d) /\ UNCHANGED ghost
  \/ OnDestroy /\ UNCHANGED ghost
  \/ pc = "idle" /\ \E d \in ReceiveInputs : ReceiveCall(d) /\ UNCHANGED ghost
  \/ \E a \in EnvAnswers : LoadDataset(a) /\ UNCHANGED ghost
  \/ ParseGraph /\ UNCHANGED ghost
  \/ ForTreatment /\ UNCHANGED ghost
  \/ ForOutcome /\ UNCHANGED ghost
  \/ \E a, p \in EnvAnswers : EstimatePair(a, p) /\ UNCHANGED ghost
  \/ \E a \in EnvAnswers : CompileResult(a) /\ UNCHANGED ghost
  \/ Collect /\ UNCHANGED ghost

Spec == Init /\ [][Next]_vars

(***************************************************************************)
(* SpecLifecycle: runs of at most MaxCalls calls whose order is recorded.  *)
(* The first on_receive call that returns is remembered, and every later   *)
(* on_receive call is given the same task again, after whatever calls were *)
(* made in between.                                                        *)
(***************************************************************************)
DatasetReplayed == {Absent, PyStr("null"), PyStr("{\"T1\": [0, 1]}"), PyStr("data.csv"), PyStr("missing.csv")}
GraphReplayed == {Absent, PyStr(EdgesText), PyStr("5")}
TreatmentsReplayed == {PyNone, PyList(<<"T1">>), PyList(<<"T1", "T2">>), PyList(<<"T1", "T1">>)}
OutcomesReplayed == {PyNone, PyList(<<"Y1">>), PyList(<<"Y1", "Y2">>), PySet(<<"Y1">>)}

LifecycleInputs == {PyNone} \cup {d \in ReceiveInputs :
  /\ d.kind = "dict"
  /\ d.items["dataset"] \in DatasetReplayed
  /\ d.items["graph_edges"] \in GraphReplayed
  /\ d.items["method"] # Absent
  /\ d.items["treatment"] \in TreatmentsReplayed
  /\ d.items["outcome"] \in OutcomesReplayed}

Called(name) ==
  /\ Len(history) < MaxCalls
  /\ history' = Append(history, name)

Remember ==
  first' = IF first = NoFirst /\ pc' = "returned"
           THEN [data |-> data', ret |-> ret', envlog |-> envlog']
           ELSE first

NextLifecycle ==
  \/ pc = "idle" /\ \E d \in CreateInputs : OnCreate(d) /\ Called("on_create") /\ UNCHANGED first
  \/ OnDestroy /\ Called("on_destroy") /\ UNCHANGED first
  \/ /\ pc = "idle"
     /\ \E d \in (IF first = NoFirst THEN LifecycleInputs ELSE {first.data}) :
          ReceiveCall(d) /\ Called("on_receive") /\ Remember
  \/ \E a \in EnvAnswers : LoadDataset(a) /\ Remember /\ UNCHANGED history
  \/ ParseGraph /\ Remember /\ UNCHANGED history
  \/ ForTreatment /\ Remember /\ UNCHANGED history
  \/ ForOutcome /\ Remember /\ UNCHANGED history
  \/ \E a, p \in EnvAnswers : EstimatePair(a, p) /\ Remember /\ UNCHANGED history
  \/ \E a \in EnvAnswers : CompileResult(a) /\ Remember /\ UNCHANGED history
  \/ Collect /\ UNCHANGED ghost

SpecLifecycle == Init /\ [][NextLifecycle]_vars

(***************************************************************************)
(* Properties.                                                             *)
(***************************************************************************)
Returned(name) == pc = "returned" /\ lastCall = name
IsResult(r) == DOMAIN r = {"result"}
IsErrorStatus(r) == DOMAIN r = {"status"} /\ Len(r.status) >= 1 /\ r.status[1] = "Error "
ItemsOf(v) == IF Iterable(v) THEN v.items ELSE <<>>
TreatmentItems == ItemsOf(Get(data, "treatment"))
OutcomeItems == ItemsOf(Get(data, "outcome"))
FailureStages == {"extract", "dataset", "graph", "iterate", "handler", "serialize"}

\* C1: on_receive always returns a dictionary with exactly one key, "result"
\* holding a JSON string or "status" holding a string that starts with
\* "Error "; every failure (argument extraction, dataset loading, graph
\* parsing, iterating the lists, the handler, serializing) gives the
\* "status" form, and nothing is returned before the call has ended.
ReceiveReturnsResultOrErrorStatus ==
  /\ pc \notin {"idle", "returned"} => ret = NoRet /\ failed = "none"
  /\ Returned("on_receive") =>
       /\ failed \in FailureStages \cup {"none"}
       /\ failed # "none" => IsErrorStatus(ret)
       /\ failed = "none" => IsResult(ret) /\ ret.result.kind = "json"

\* C1 witness: the serialization of a completed batch failed and became a status.
SerializationFailureReported ==
  /\ Returned("on_receive")
  /\ failed = "serialize"
  /\ Len(attempts) = 2
  /\ IsErrorStatus(ret)

\* C2: a returned result holds one entry per (treatment, outcome) pair, in
\* treatment-major order: entry (i-1)*len(outcome)+j (counting from 1)
\* carries treatment[i] and outcome[j].
ResultIsCartesianProduct ==
  Returned("on_receive") /\ IsResult(ret) =>
    LET effects == ret.result.of.causal_effects
        n == Len(TreatmentItems)
        m == Len(OutcomeItems)
    IN /\ Len(effects) = n * m
       /\ \A i \in 1..n : \A j \in 1..m :
            /\ effects[(i - 1) * m + j].treatment = TreatmentItems[i]
            /\ effects[(i - 1) * m + j].outcome = OutcomeItems[j]

\* C2 witness: a result for a treatment list with a duplicate and two outcomes.
DuplicateTreatmentResult ==
  /\ Returned("on_receive")
  /\ IsResult(ret)
  /\ TreatmentItems = <<"T1", "T1">>
  /\ OutcomeItems = <<"Y2", "Y1">>
  /\ Len(ret.result.of.causal_effects) = 4

PrintRaised == \E q \in envlog : q[1][1] = "print" /\ q[2] = "raise"
DumpsRaised == <<<<"dumps">>, "raise">> \in envlog
ListsUsable ==
  /\ Iterable(Get(data, "treatment"))
  /\ TreatmentItems # <<>> => Iterable(Get(data, "outcome"))
  /\ JsonSerializable(Get(data, "treatment"))
  /\ JsonSerializable(Get(data, "outcome"))
LoopCompleted ==
  LET n == Len(TreatmentItems)
      m == Len(OutcomeItems)
  IN /\ Len(attempts) = n * m
     /\ \A i \in 1..n : \A j \in 1..m :
          /\ attempts[(i - 1) * m + j].treatment = TreatmentItems[i]
          /\ attempts[(i - 1) * m + j].outcome = OutcomeItems[j]

LifecycleStatusIsFixed ==
  /\ Returned("on_create") => ret = [status |-> <<"initialized">>]
  /\ Returned("on_destroy") => ret = [status |-> <<"destroyed">>]

\* C4 witness: on_create with an argument that is no dictionary, called
\* after on_destroy and on_receive.
CreatedAgainAfterDestroy ==
  /\ Returned("on_create")
  /\ history = <<"on_destroy", "on_receive", "on_create">>
  /\ data = PyNone
  /\ ret = [status |-> <<"initialized">>]

Consistent(log1, log2) ==
  \A a \in log1 : \A b \in log2 : a[1] = b[1] => a[2] = b[2]

EnvironmentRaised == \E q \in envlog : q[2] = "raise"
OtherwiseValid(d, key) ==
  /\ d.kind = "dict"
  /\ d.items[key] = Absent
  /\ \A k \in {"dataset", "graph_edges"} \ {key} :
       d.items[k] \in {PyStr("data.csv"), PyStr(EdgesText)}
  /\ d.items["method"] # Absent
  /\ d.items["treatment"] = PyList(<<"T1">>)
  /\ d.items["outcome"] = PyList(<<"Y1">>)

\* C6: a task that omits "dataset" or "graph_edges" and is valid otherwise
\* is analysed with a default in its place and returns a "result".
OmittedKeyGetsDefault ==
  (/\ Returned("on_receive")
   /\ OtherwiseValid(data, "dataset") \/ OtherwiseValid(data, "graph_edges")
   /\ ~EnvironmentRaised) => IsResult(ret)

\* C7: without a dataset (key absent, or None) on_receive returns
\* {"status": "Error No data provided for analysis."}; a dataset string that
\* is neither JSON nor an existing path gives
\* {"status": "Error Invalid data path or data format."}.
MissingDatasetMessage ==
  Returned("on_receive") /\ data.kind = "dict" =>
    /\ Get(data, "dataset") = PyNone =>
         ret = [status |-> <<"Error ", "No data provided for analysis.">>]
    /\ Get(data, "dataset") = PyStr("missing.csv") =>
         ret = [status |-> <<"Error ", "Invalid data path or data format.">>]

DatasetCannotLoad(d) ==
  LET s == Get(d, "dataset")
  IN IF JsonLoads(s).ok
     THEN JsonLoads(s).value = PyNone
     ELSE ~PathNew(s).ok \/ ~PathExists(PathNew(s).path)
GraphCannotLoad(d) ==
  LET g == Get(d, "graph_edges")
  IN g = PyNone \/ ~JsonLoads(g).ok \/ ~DiGraph(JsonLoads(g).value).ok

====
